---- MODULE Spec2Model ----
(***************************************************************************)
(* A model of the memory-measurement instrumentation of the repository:    *)
(* MemoryTracker (memory_tracker.py), the CSV file it writes and pandas     *)
(* reads back, and compare_implementations (visualize_memory.py).           *)
(*                                                                         *)
(* Numbers.  Python floats are modelled in fixed point: a value v stands   *)
(* for v / Scale.  Times are seconds, memory readings are MB, so the clock *)
(* advances in steps of 1/Scale s and resident memory is a whole number of *)
(* granules of BytesPerMB / Scale bytes.  Every such value is a dyadic     *)
(* rational, exactly representable as a double, and its shortest decimal   *)
(* form (what to_csv writes) is finite.                                    *)
(***************************************************************************)
EXTENDS Integers, Sequences, FiniteSets, TLC

VARIABLES
    label,          \* MemoryTracker.label
    start_time,     \* MemoryTracker.start_time (None until start())
    timestamps,     \* MemoryTracker.timestamps
    memory_usage,   \* MemoryTracker.memory_usage
    now,            \* the wall clock read by time.time()
    retained,       \* granules the workload still references
    garbage,        \* granules of unreferenced, not yet collected garbage
    lastCall,       \* the operation performed by the last step
    raised,         \* the exception the last call delivered to its caller
    steps,          \* the internal steps of the last _record_point, in order
    k,              \* history: record() calls since the last start()
    stops,          \* history: stop() calls since the last start()
    result,         \* what the last call produced: the file save_data wrote,
                    \* the DataFrame read_csv returned, the curves plot and
                    \* the comparison chart drew
    bad_csv,        \* compare_implementations: content of bad_csvs[-1]
    good_csv,       \* compare_implementations: content of good_csvs[-1]
    cmp_pc,         \* compare_implementations: "ready" or "done"
    cmp_raised,     \* exception compare_implementations delivered
    cmp_printed,    \* messages compare_implementations printed
    cmp_outputs,    \* image files compare_implementations wrote
    cmp_stats,      \* the growth statistics it annotated
    fit_pc,         \* np.polyfit on its own: "ready" or "done"
    fit_x,          \* np.polyfit: the x values given
    fit_y,          \* np.polyfit: the y values given
    fit_out,        \* np.polyfit: what it returned or raised
    singleton_exc,  \* traceback demo: singleton_exc.__traceback__
    demo_pc,        \* traceback demo: the loop the script is in
    raise_count,    \* traceback demo: raises done in that loop
    tb,             \* traceback demo: the module variable tb
    depth,          \* traceback demo: the frame count last printed
    impl,           \* request handler: the module in use, "bad" or "good"
    errors,         \* request handler: the tracebacks of the exception
                    \* objects class Errors holds
    live,           \* request handler: the tracebacks of the exception
                    \* objects made by a factory and still referenced
    handled,        \* request handler: history, the requests handled
    response,       \* request handler: what the last call returned
    files,          \* demo.py: the CSV files of the working directory, by name
    main_pc,        \* demo.py: the statement of __main__ to run next
    files_written,  \* demo.py: history, the names save_data has written
    files_read      \* demo.py: history, the names pd.read_csv was given

trackerVars == <<label, start_time, timestamps, memory_usage>>
envVars     == <<now, retained, garbage>>
histVars    == <<lastCall, raised, steps, k, stops>>
cmpVars     == <<bad_csv, good_csv, cmp_pc, cmp_raised, cmp_printed,
                 cmp_outputs, cmp_stats>>
fitVars     == <<fit_pc, fit_x, fit_y, fit_out>>
demoVars    == <<singleton_exc, demo_pc, raise_count, tb, depth>>
handlerVars == <<impl, errors, live, handled, response>>
mainVars    == <<files, main_pc, files_written, files_read>>
vars        == <<trackerVars, envVars, histVars, result, cmpVars, fitVars,
                 demoVars, handlerVars, mainVars>>

(***************************************************************************)
(* Bounds of the model.                                                    *)
(***************************************************************************)
MaxSamples == 3     \* longest sample list explored
MaxTime    == 3     \* last clock value explored
MaxFitLen  == 3     \* most points handed to np.polyfit on its own
MaxRequests == 3    \* most requests handed to one RequestHandler
num_raises == 60    \* iterations of each loop of the traceback demo (the
                    \* script runs 1000)

GcDelays == {0, 1}  \* clock ticks one gc.collect() pass may take
Retained == {0, 1}  \* granules the workload may hold referenced
Garbage  == {0, 1}  \* granules of uncollected garbage it may leave

(***************************************************************************)
(* Program constants.                                                      *)
(***************************************************************************)
None       == 0                 \* start_time = None; `if self.start_time`
                                \* treats None and 0.0 alike
BytesPerMB == 1024 * 1024       \* memory_tracker.py:44
Scale      == 4                 \* fixed-point resolution, see above
Epoch      == 1                 \* first clock value; time.time() is never 0
BaseRss    == 4                 \* granules resident before the workload runs

Granule == BytesPerMB \div Scale

Last(s) == s[Len(s)]

(***************************************************************************)
(* gc.collect() and psutil's memory_info().rss                             *)
(***************************************************************************)
\* What a forced collection leaves of the unreferenced garbage.
GcCollect(g) == 0

\* process.memory_info().rss, in bytes.
ReadRss(ret, garb) == (BaseRss + ret + garb) * Granule

\* Variant of ToMB: the reading is kept in bytes.
ToMB_unscaled(rss) == rss * Scale

\* rss / (1024 * 1024): true division, kept in fixed point.
ToMB(rss) == (rss * Scale) \div BytesPerMB

(***************************************************************************)
(* pandas: DataFrame.to_csv and pd.read_csv                                *)
(*                                                                         *)
(* A file is a sequence of rows, a row a sequence of fields, a field a     *)
(* sequence of characters.  A DataFrame is [err, columns, data]: data is a *)
(* sequence of rows of cells, a cell is [kind, num, text] with kind        *)
(* "num" (a float64), "nan" (missing) or "str" (a cell of an object        *)
(* column).                                                                *)
(***************************************************************************)
DigitChars == <<"0", "1", "2", "3", "4", "5", "6", "7", "8", "9">>

\* The keys save_data gives the two columns it writes.
DataKeys == << <<"t", "i", "m", "e", "s", "t", "a", "m", "p">>,
               <<"m", "e", "m", "o", "r", "y", "_", "m", "b">> >>

\* The columns the readers ask a loaded DataFrame for.
TimestampCol == <<"t", "i", "m", "e", "s", "t", "a", "m", "p">>
MemoryMbCol  == <<"m", "e", "m", "o", "r", "y", "_", "m", "b">>

IsDigit(c) == \E d \in 1..10 : DigitChars[d] = c

DigitVal(c) == (CHOOSE d \in 1..10 : DigitChars[d] = c) - 1

RECURSIVE IntDigits(_)
\* The decimal digits of a natural number.
IntDigits(n) ==
    IF n < 10 THEN <<DigitChars[n + 1]>>
    ELSE IntDigits(n \div 10) \o <<DigitChars[(n % 10) + 1]>>

RECURSIVE FracDigits(_)
\* The decimal digits of r / Scale, 0 <= r < Scale, without trailing zeros.
FracDigits(r) ==
    IF r = 0 THEN <<>>
    ELSE <<DigitChars[((r * 10) \div Scale) + 1]>> \o FracDigits((r * 10) % Scale)

\* Variant of FormatFloat: one decimal place is written ("%.1f").
FormatFloat_one_decimal(v) ==
    IntDigits(v \div Scale) \o <<".">> \o
    <<DigitChars[(((v % Scale) * 10) \div Scale) + 1]>>

\* repr of a non-negative float, as to_csv writes it: 1.0, 1.25, 0.5
FormatFloat(v) ==
    IntDigits(v \div Scale) \o <<".">> \o
    (IF v % Scale = 0 THEN <<"0">> ELSE FracDigits(v % Scale))

\* Variant of WriteCsv: the index is written too (to_csv's default).
WriteCsv_with_index(ts, mu, tsInt) ==
    <<<< <<>> >> \o DataKeys>> \o
    [n \in 1..Len(ts) |->
        <<IntDigits(n - 1),
          IF tsInt THEN IntDigits(ts[n] \div Scale) ELSE FormatFloat(ts[n]),
          FormatFloat(mu[n])>>]

\* df = pd.DataFrame(data); df.to_csv(filename, index=False).  The elapsed
\* times of a tracker that was never started are all the int 0, an int64
\* column, written without a decimal point (tsInt).
WriteCsv(ts, mu, tsInt) ==
    <<DataKeys>> \o
    [i \in 1..Len(ts) |->
        <<IF tsInt THEN IntDigits(ts[i] \div Scale) ELSE FormatFloat(ts[i]),
          FormatFloat(mu[i])>>]

RECURSIVE DigitsVal(_)
\* The number a sequence of digits denotes (0 for none).
DigitsVal(s) ==
    IF Len(s) = 0 THEN 0
    ELSE DigitsVal(SubSeq(s, 1, Len(s) - 1)) * 10 + DigitVal(Last(s))

RECURSIVE Pow10(_)
Pow10(n) == IF n = 0 THEN 1 ELSE 10 * Pow10(n - 1)

DotPositions(s) == {i \in 1..Len(s) : s[i] = "."}

\* The fields pandas' parser converts to a float: digits with at most one
\* decimal point.
IsNumeric(s) ==
    /\ \A i \in 1..Len(s) : IsDigit(s[i]) \/ s[i] = "."
    /\ Cardinality(DotPositions(s)) <= 1
    /\ \E i \in 1..Len(s) : IsDigit(s[i])

\* The float a numeric field denotes, in fixed point.
ParseFloat(s) ==
    LET p    == IF DotPositions(s) = {} THEN Len(s) + 1
                ELSE CHOOSE i \in DotPositions(s) : TRUE
        int  == SubSeq(s, 1, p - 1)
        frac == SubSeq(s, p + 1, Len(s))
    IN  DigitsVal(int) * Scale + (DigitsVal(frac) * Scale) \div Pow10(Len(frac))

NumCell(n) == [kind |-> "num", num |-> n, text |-> <<>>]
NaN        == [kind |-> "nan", num |-> 0, text |-> <<>>]
StrCell(s) == [kind |-> "str", num |-> 0, text |-> s]

\* Field j of a row; a row shorter than the header has it missing.
Field(row, j) == IF j <= Len(row) THEN row[j] ELSE <<>>

\* A column stays float64 when every field in it is numeric or missing;
\* otherwise it is an object column of strings.
ColumnIsNumeric(rows, j) ==
    \A i \in 1..Len(rows) : Field(rows[i], j) = <<>> \/ IsNumeric(Field(rows[i], j))

\* pd.read_csv(path), for a file in which no row has more fields than the
\* header row.
ReadCsv(file) ==
    LET rows == SelectSeq(file, LAMBDA r : Len(r) > 0)   \* blank lines are skipped
        header == rows[1]
        body   == Tail(rows)
        cell(i, j) ==
            LET f == Field(body[i], j)
            IN  IF f = <<>> THEN NaN
                ELSE IF ColumnIsNumeric(body, j) THEN NumCell(ParseFloat(f))
                ELSE StrCell(f)
    IN  IF Len(rows) = 0
        THEN [err |-> "EmptyDataError", columns |-> <<>>, data |-> <<>>]
        ELSE [err |-> "none", columns |-> header,
              data |-> [i \in 1..Len(body) |->
                           [j \in 1..Len(header) |-> cell(i, j)]]]

NoFrame == [err |-> "none", columns |-> <<>>, data |-> <<>>]

(***************************************************************************)
(* numpy: np.polyfit(x, y, 1)                                              *)
(*                                                                         *)
(* The least-squares line through the points (x[i], y[i]), in exact        *)
(* arithmetic: the slope is num / den and the intercept inum / den, with   *)
(* den = n * Sum(x^2) - Sum(x)^2.  x and y carry the same fixed-point      *)
(* scale, so num / den is the slope in MB per second and inum / den the    *)
(* intercept in fixed point.                                               *)
(***************************************************************************)
RECURSIVE Sum(_)
Sum(s) == IF Len(s) = 0 THEN 0 ELSE s[1] + Sum(Tail(s))

Products(x, y) == [i \in 1..Len(x) |-> x[i] * y[i]]

\* A trend: kind is "none" (no fit was made), "fit", "rank_deficient" (the
\* x values are all equal and do not determine a line: polyfit warns and
\* returns a minimum-norm solution, not followed here), "undefined" (the x
\* values are all 0: polyfit divides the x column by its norm 0 and hands
\* NaN to the solver), "nan" (the data held NaN) or "TypeError" (polyfit
\* raised: x is empty).
Trend(kind, num, den, inum) == [kind |-> kind, num |-> num, den |-> den, inum |-> inum]

NoTrend == Trend("none", 0, 1, 0)

\* Variant of Polyfit: the line is forced through the origin.
Polyfit_through_origin(x, y) ==
    LET sxx == Sum(Products(x, x))
        sxy == Sum(Products(x, y))
    IN  IF Len(x) = 0 THEN Trend("TypeError", 0, 1, 0)
        ELSE IF sxx = 0 THEN Trend("undefined", 0, 1, 0)
        ELSE Trend("fit", sxy, sxx, 0)

\* z = np.polyfit(x, y, 1): z[0] is the slope, z[1] the intercept.
Polyfit(x, y) ==
    LET n   == Len(x)
        sx  == Sum(x)
        sy  == Sum(y)
        sxx == Sum(Products(x, x))
        sxy == Sum(Products(x, y))
        den == n * sxx - sx * sx
    IN  IF n = 0 THEN Trend("TypeError", 0, 1, 0)
        ELSE IF sxx = 0 THEN Trend("undefined", 0, 1, 0)
        ELSE IF den = 0 THEN Trend("rank_deficient", 0, 1, 0)
        ELSE Trend("fit", n * sxy - sx * sy, den, sy * sxx - sx * sxy)

\* The exceptions a polyfit call with outcome z can deliver.  On NaN the
\* solver either fails to converge (LinAlgError) or returns NaN, depending
\* on the build of the library.
PolyfitRaises(z) ==
    IF z.kind = "TypeError" THEN {"TypeError"}
    ELSE IF z.kind \in {"undefined", "nan"} THEN {"none", "LinAlgError"}
    ELSE {"none"}

\* What a call produces: nothing, a file, a DataFrame, the curves it drew
\* with their trend lines, or a trend alone.
\* The model follows a written file only until the tracker is used again:
\* no tracker operation reads a file.
NoResult ==
    [kind |-> "none", file |-> <<>>, frame |-> NoFrame, a |-> <<>>, b |-> <<>>,
     trend |-> NoTrend, trend_b |-> NoTrend]
File(f)   == [NoResult EXCEPT !.kind = "file", !.file = f]
Frame(df) == [NoResult EXCEPT !.kind = "frame", !.frame = df]
Curves(a, b, za, zb) ==
    [NoResult EXCEPT !.kind = "curves", !.a = a, !.b = b, !.trend = za, !.trend_b = zb]
Fitted(t) == [NoResult EXCEPT !.kind = "trend", !.trend = t]

HasColumn(df, name) == \E j \in 1..Len(df.columns) : df.columns[j] = name

\* df[name]: the cells of the first column called name.
Column(df, name) ==
    LET j == CHOOSE c \in 1..Len(df.columns) :
                 /\ df.columns[c] = name
                 /\ \A b \in 1..(c - 1) : df.columns[b] # name
    IN  [i \in 1..Len(df.data) |-> df.data[i][j]]

\* The float64 values of a column that holds no missing or text cell.
Values(col) == [i \in 1..Len(col) |-> col[i].num]

(***************************************************************************)
(* MemoryTracker                                                           *)
(***************************************************************************)
Labels == {"bad_implementation", "singleton_exception"}

\* The other tracker handed to create_comparison_chart: its timestamps and
\* its memory_usage.
OtherSeries ==
    {[timestamps |-> <<>>, memory_usage |-> <<>>],
     [timestamps |-> <<0>>, memory_usage |-> <<BaseRss>>],
     [timestamps |-> <<0, 1>>, memory_usage |-> <<BaseRss, BaseRss + 1>>]}


\* One internal step of _record_point and the value it handled: the length
\* of the tracker's list on entry, the granules the collection freed, the rss
\* read, the clock read, the new list length.
Step(op, val) == [op |-> op, val |-> val]

\* Variant of record_point: the clock is read before the collection pass.
record_point_clock_first(st, ts, mu, d) ==
    LET t            == now
        elapsed_time == IF st # None THEN t - st ELSE 0
        g1           == GcCollect(garbage)
        memory_mb    == ToMB(ReadRss(retained, g1))
    IN  /\ garbage' = g1
        /\ now' = now + d
        /\ timestamps' = Append(ts, elapsed_time)
        /\ memory_usage' = Append(mu, memory_mb)
        /\ steps' = <<Step("enter", Len(timestamps)),
                       Step("gc.collect", garbage - g1),
                       Step("memory_info", ReadRss(retained, g1)),
                       Step("time", t),
                       Step("append", Len(ts) + 1)>>

\* Variant of record_point: the memory is read before the collection pass.
record_point_read_first(st, ts, mu, d) ==
    LET memory_mb    == ToMB(ReadRss(retained, garbage))
        g1           == GcCollect(garbage)
        t            == now + d
        elapsed_time == IF st # None THEN t - st ELSE 0
    IN  /\ garbage' = g1
        /\ now' = t
        /\ timestamps' = Append(ts, elapsed_time)
        /\ memory_usage' = Append(mu, memory_mb)
        /\ steps' = <<Step("enter", Len(timestamps)),
                       Step("memory_info", ReadRss(retained, garbage)),
                       Step("gc.collect", garbage - g1),
                       Step("time", t),
                       Step("append", Len(ts) + 1)>>

\* MemoryTracker._record_point, run with start time st on the lists ts and
\* mu; the collection pass takes d ticks of the clock.
record_point(st, ts, mu, d) ==
    LET g1           == GcCollect(garbage)
        memory_mb    == ToMB(ReadRss(retained, g1))
        t            == now + d
        elapsed_time == IF st # None THEN t - st ELSE 0
    IN  /\ garbage' = g1
        /\ now' = t
        /\ timestamps' = Append(ts, elapsed_time)
        /\ memory_usage' = Append(mu, memory_mb)
        /\ steps' = <<Step("enter", Len(timestamps)),
                       Step("gc.collect", garbage - g1),
                       Step("memory_info", ReadRss(retained, g1)),
                       Step("time", t),
                       Step("append", Len(ts) + 1)>>

\* Variant of start: the baseline sample is not taken.
start_no_baseline ==
    /\ now <= MaxTime
    /\ start_time' = now
    /\ timestamps' = <<>>
    /\ memory_usage' = <<>>
    /\ steps' = <<>>
    /\ k' = 0
    /\ stops' = 0
    /\ lastCall' = "start"
    /\ raised' = "none"
    /\ result' = NoResult
    /\ UNCHANGED <<label, envVars, cmpVars, fitVars, demoVars, handlerVars, mainVars>>

\* Variant of start: the lists of the previous series are not cleared.
start_keep_lists ==
    /\ Len(timestamps) < MaxSamples
    /\ \E d \in GcDelays :
          /\ now + d <= MaxTime
          /\ start_time' = now
          /\ record_point(now, timestamps, memory_usage, d)
    /\ k' = 0
    /\ stops' = 0
    /\ lastCall' = "start"
    /\ raised' = "none"
    /\ result' = NoResult
    /\ UNCHANGED <<label, retained, cmpVars, fitVars, demoVars, handlerVars, mainVars>>

\* Variant of start: the baseline is taken before the start time is reset.
start_late_reset ==
    /\ \E d \in GcDelays :
          /\ now + d <= MaxTime
          /\ record_point(start_time, <<>>, <<>>, d)
          /\ start_time' = now + d
    /\ k' = 0
    /\ stops' = 0
    /\ lastCall' = "start"
    /\ raised' = "none"
    /\ result' = NoResult
    /\ UNCHANGED <<label, retained, cmpVars, fitVars, demoVars, handlerVars, mainVars>>

\* Variant of start: only the timestamps list is cleared.
start_clears_timestamps_only ==
    /\ \E d \in GcDelays :
          /\ now + d <= MaxTime
          /\ start_time' = now
          /\ record_point(now, <<>>, memory_usage, d)
    /\ k' = 0
    /\ stops' = 0
    /\ lastCall' = "start"
    /\ raised' = "none"
    /\ result' = NoResult
    /\ UNCHANGED <<label, retained, cmpVars, fitVars, demoVars, handlerVars, mainVars>>

\* MemoryTracker.start
start ==
    /\ \E d \in GcDelays :
          /\ now + d <= MaxTime
          /\ start_time' = now
          /\ record_point(now, <<>>, <<>>, d)
    /\ k' = 0
    /\ stops' = 0
    /\ lastCall' = "start"
    /\ raised' = "none"
    /\ result' = NoResult
    /\ UNCHANGED <<label, retained, cmpVars, fitVars, demoVars, handlerVars, mainVars>>

\* A call rejected with StateError: nothing is measured or appended.
Rejected(call) ==
    /\ lastCall' = call
    /\ raised' = "StateError"
    /\ steps' = <<>>
    /\ result' = NoResult
    /\ UNCHANGED <<trackerVars, envVars, k, stops, cmpVars, fitVars, demoVars, handlerVars, mainVars>>

\* Variant of record: a tracker that was never started is rejected.
record_requires_start ==
    IF start_time = None
    THEN Rejected("record")
    ELSE /\ Len(timestamps) < MaxSamples
         /\ \E d \in GcDelays :
               /\ now + d <= MaxTime
               /\ record_point(start_time, timestamps, memory_usage, d)
         /\ k' = k + 1
         /\ lastCall' = "record"
         /\ raised' = "none"
         /\ result' = NoResult
         /\ UNCHANGED <<label, start_time, retained, stops, cmpVars, fitVars, demoVars, handlerVars, mainVars>>

\* Variant of record: a stopped series is rejected.
record_rejects_closed ==
    IF stops > 0
    THEN Rejected("record")
    ELSE /\ Len(timestamps) < MaxSamples
         /\ \E d \in GcDelays :
               /\ now + d <= MaxTime
               /\ record_point(start_time, timestamps, memory_usage, d)
         /\ k' = k + 1
         /\ lastCall' = "record"
         /\ raised' = "none"
         /\ result' = NoResult
         /\ UNCHANGED <<label, start_time, retained, stops, cmpVars, fitVars, demoVars, handlerVars, mainVars>>

\* MemoryTracker.record
record ==
    /\ Len(timestamps) < MaxSamples
    /\ \E d \in GcDelays :
          /\ now + d <= MaxTime
          /\ record_point(start_time, timestamps, memory_usage, d)
    /\ k' = k + 1
    /\ lastCall' = "record"
    /\ raised' = "none"
    /\ result' = NoResult
    /\ UNCHANGED <<label, start_time, retained, stops, cmpVars, fitVars, demoVars, handlerVars, mainVars>>

\* Variant of stop: a second stop() does nothing.
stop_idempotent ==
    IF stops > 0
    THEN /\ lastCall' = "stop"
         /\ raised' = "none"
         /\ steps' = <<>>
         /\ result' = NoResult
         /\ stops' = stops + 1
         /\ UNCHANGED <<trackerVars, envVars, k, cmpVars, fitVars, demoVars, handlerVars, mainVars>>
    ELSE /\ Len(timestamps) < MaxSamples
         /\ \E d \in GcDelays :
               /\ now + d <= MaxTime
               /\ record_point(start_time, timestamps, memory_usage, d)
         /\ stops' = stops + 1
         /\ lastCall' = "stop"
         /\ raised' = "none"
         /\ result' = NoResult
         /\ UNCHANGED <<label, start_time, retained, k, cmpVars, fitVars, demoVars, handlerVars, mainVars>>

\* MemoryTracker.stop
stop ==
    /\ Len(timestamps) < MaxSamples
    /\ \E d \in GcDelays :
          /\ now + d <= MaxTime
          /\ record_point(start_time, timestamps, memory_usage, d)
    /\ stops' = stops + 1
    /\ lastCall' = "stop"
    /\ raised' = "none"
    /\ result' = NoResult
    /\ UNCHANGED <<label, start_time, retained, k, cmpVars, fitVars, demoVars, handlerVars, mainVars>>

\* MemoryTracker.save_data
save_data ==
    /\ result' = File(WriteCsv(timestamps, memory_usage, start_time = None))
    /\ lastCall' = "save_data"
    /\ raised' = "none"
    /\ steps' = <<>>
    /\ UNCHANGED <<trackerVars, envVars, k, stops, cmpVars, fitVars, demoVars, handlerVars, mainVars>>

\* if len(x) > 1: z = np.polyfit(x, y, 1)
GuardedPolyfit(x, y) == IF Len(x) > 1 THEN Polyfit(x, y) ELSE NoTrend

\* Variant of plot: the trend line is fitted whatever the number of samples.
plot_always_fits ==
    /\ LET z == Polyfit(timestamps, memory_usage)
       IN  \E exc \in PolyfitRaises(z) :
              /\ raised' = exc
              /\ result' = (IF exc = "none"
                            THEN Curves(memory_usage, <<>>, z, NoTrend)
                            ELSE NoResult)
    /\ lastCall' = "plot"
    /\ steps' = <<>>
    /\ UNCHANGED <<trackerVars, envVars, k, stops, cmpVars, fitVars, demoVars, handlerVars, mainVars>>

\* MemoryTracker.plot: the curve drawn and the trend line added to it.
plot ==
    /\ LET z == GuardedPolyfit(timestamps, memory_usage)
       IN  \E exc \in PolyfitRaises(z) :
              /\ raised' = exc
              /\ result' = (IF exc = "none"
                            THEN Curves(memory_usage, <<>>, z, NoTrend)
                            ELSE NoResult)
    /\ lastCall' = "plot"
    /\ steps' = <<>>
    /\ UNCHANGED <<trackerVars, envVars, k, stops, cmpVars, fitVars, demoVars, handlerVars, mainVars>>

\* df[col] - df[col].iloc[0]
Normalize(mu) == [i \in 1..Len(mu) |-> mu[i] - mu[1]]

\* The two normalized curves and their trend lines, for a tracker with the
\* lists ts and mu and another tracker, both with at least one sample.
Chart(ts, mu, other) ==
    LET za == GuardedPolyfit(ts, Normalize(mu))
        zb == GuardedPolyfit(other.timestamps, Normalize(other.memory_usage))
    IN  \E ea \in PolyfitRaises(za), eb \in PolyfitRaises(zb) :
           /\ raised' = (IF ea # "none" THEN ea ELSE eb)
           /\ result' = (IF ea = "none" /\ eb = "none"
                         THEN Curves(Normalize(mu), Normalize(other.memory_usage),
                                     za, zb)
                         ELSE NoResult)

\* Variant of create_comparison_chart: the tracker's list is normalized in
\* place instead of a copy.
create_comparison_chart_inplace ==
    /\ \E other \in OtherSeries :
          IF Len(memory_usage) = 0 \/ Len(other.memory_usage) = 0
          THEN /\ raised' = "IndexError"
               /\ result' = NoResult
               /\ memory_usage' = memory_usage
          ELSE /\ Chart(timestamps, memory_usage, other)
               /\ memory_usage' = Normalize(memory_usage)
    /\ lastCall' = "create_comparison_chart"
    /\ steps' = <<>>
    /\ UNCHANGED <<label, start_time, timestamps, envVars, k, stops, cmpVars, fitVars, demoVars, handlerVars, mainVars>>

\* ArticleDemo.create_comparison_chart(tracker, other)
create_comparison_chart ==
    /\ \E other \in OtherSeries :
          IF Len(memory_usage) = 0 \/ Len(other.memory_usage) = 0
          THEN /\ raised' = "IndexError"      \* .iloc[0] of an empty column
               /\ result' = NoResult
          ELSE Chart(timestamps, memory_usage, other)
    /\ lastCall' = "create_comparison_chart"
    /\ steps' = <<>>
    /\ UNCHANGED <<trackerVars, envVars, k, stops, cmpVars, fitVars, demoVars, handlerVars, mainVars>>

\* ArticleDemo.run_singleton_demo and run_factory_demo, "# Calculate trend":
\* np.polyfit over the tracker's lists, with no test of their length, right
\* after the tracker.stop() that ends the run the demo started.
calculate_trend ==
    /\ lastCall = "stop"
    /\ start_time # None
    /\ stops = 1
    /\ LET z == Polyfit(timestamps, memory_usage)
       IN  \E exc \in PolyfitRaises(z) :
              /\ raised' = exc
              /\ result' = (IF exc = "none" THEN Fitted(z) ELSE NoResult)
    /\ lastCall' = "calculate_trend"
    /\ steps' = <<>>
    /\ UNCHANGED <<trackerVars, envVars, k, stops, cmpVars, fitVars, demoVars, handlerVars, mainVars>>

\* data = pd.read_csv(error_data), of the file save_data wrote
read_csv ==
    /\ result.kind = "file"
    /\ result' = Frame(ReadCsv(result.file))
    /\ lastCall' = "read_csv"
    /\ raised' = "none"
    /\ steps' = <<>>
    /\ UNCHANGED <<trackerVars, envVars, k, stops, cmpVars, fitVars, demoVars, handlerVars, mainVars>>

\* The measured workload between two calls: time passes, memory is
\* allocated, released or left as garbage.
Workload ==
    /\ \E dt \in 0..1, r \in Retained, g \in Garbage :
          /\ now + dt <= MaxTime
          /\ now' = now + dt
          /\ retained' = r
          /\ garbage' = g
    /\ lastCall' = "workload"
    /\ raised' = "none"
    /\ steps' = <<>>
    /\ result' = NoResult
    /\ UNCHANGED <<trackerVars, k, stops, cmpVars, fitVars, demoVars, handlerVars, mainVars>>

(***************************************************************************)
(* visualize_memory.compare_implementations                                *)
(***************************************************************************)
\* What differs between builds of the libraries: a least-squares fit over
\* data holding NaN either raises LinAlgError or returns NaN, and a numeric
\* curve drawn on an axis that already holds text either raises TypeError
\* or is drawn.
Libs == {"strict", "lenient"}

\* The dtype of a column: "str" for an object column of text, "nan" for a
\* float64 column with missing values, "num" otherwise.
Dtype(col) ==
    IF \E i \in 1..Len(col) : col[i].kind = "str" THEN "str"
    ELSE IF \E i \in 1..Len(col) : col[i].kind = "nan" THEN "nan"
    ELSE "num"

\* a - b on two cells of float64 columns.
Minus(a, b) ==
    IF a.kind = "nan" \/ b.kind = "nan" THEN NaN ELSE NumCell(a.num - b.num)

\* Variant of NormalizeColumn: the smallest value is subtracted, not the
\* first.
NormalizeColumn_from_minimum(col) ==
    LET m == CHOOSE c \in {col[i] : i \in 1..Len(col)} :
                 \A j \in 1..Len(col) : c.num <= col[j].num
    IN  [i \in 1..Len(col) |-> Minus(col[i], m)]

\* Variant of NormalizeColumn: each value less the one before it.
NormalizeColumn_from_previous(col) ==
    [i \in 1..Len(col) |-> Minus(col[i], col[IF i = 1 THEN 1 ELSE i - 1])]

\* data['memory_mb'] - data['memory_mb'].iloc[0]
NormalizeColumn(col) == [i \in 1..Len(col) |-> Minus(col[i], col[1])]

\* Variant of GrowthDifference: the operands are exchanged.
GrowthDifference_reversed(bad_growth, good_growth) == Minus(good_growth, bad_growth)

\* bad_growth - good_growth
GrowthDifference(bad_growth, good_growth) == Minus(bad_growth, good_growth)

\* The trend line of one series: np.polyfit(data['timestamp'], data[column], 1)
\* when len(data) > 1.
ColumnTrend(x, y) ==
    IF Len(x) <= 1 THEN NoTrend
    ELSE IF Dtype(x) = "nan" \/ Dtype(y) = "nan" THEN Trend("nan", 0, 1, 0)
    ELSE Polyfit(Values(x), Values(y))

NoStats ==
    [bad_initial |-> NaN, bad_final |-> NaN, bad_growth |-> NaN,
     good_initial |-> NaN, good_final |-> NaN, good_growth |-> NaN,
     difference |-> NaN, bad_normalized |-> <<>>, good_normalized |-> <<>>,
     bad_trend |-> NoTrend, good_trend |-> NoTrend,
     bad_trend_normalized |-> NoTrend, good_trend_normalized |-> NoTrend]

Outcome(exc, printed, outputs, stats) ==
    [raised |-> exc, printed |-> printed, outputs |-> outputs, stats |-> stats]

\* Variant of LoadFailed: the exception of pd.read_csv is not caught.
LoadFailed_uncaught(bad, good) ==
    Outcome(IF bad.err # "none" THEN bad.err ELSE good.err, <<>>, {}, NoStats)

\* except Exception as e: print(...); return
LoadFailed(bad, good) ==
    Outcome("none", <<"Error loading CSV files">>, {}, NoStats)

\* np.polyfit(data['timestamp'], data[column], 1), run when len(data) > 1:
\* the exception it raises, if any.
PolyfitError(x, y, lib) ==
    IF Len(x) <= 1 THEN "none"
    ELSE IF Dtype(x) = "str" \/ Dtype(y) = "str" THEN "TypeError"
    ELSE IF ColumnTrend(x, y).kind \in {"nan", "undefined"} /\ lib = "strict"
         THEN "LinAlgError"
    ELSE "none"

\* The two plt.plot calls on one axes: the exception they raise, if any.
PlotError(bx, by, gx, gy, lib) ==
    IF /\ lib = "strict"
       /\ \/ (Dtype(bx) = "str") # (Dtype(gx) = "str")
          \/ (Dtype(by) = "str") # (Dtype(gy) = "str")
       /\ Len(bx) > 0
       /\ Len(gx) > 0
    THEN "TypeError"
    ELSE "none"

\* Variant of Analyse: the statistics are skipped instead of indexed, so a
\* series without samples does not stop the comparison.
Analyse_without_baseline(bad, good, lib) ==
    Outcome("none",
            <<"Saved memory usage comparison to memory_usage_comparison.png",
              "Saved normalized memory comparison to normalized_memory_comparison.png">>,
            {"memory_usage_comparison.png", "normalized_memory_comparison.png"},
            NoStats)

\* The body of compare_implementations after both files have loaded.
Analyse(bad, good, lib) ==
    LET failed(exc) == Outcome(exc, <<>>, {}, NoStats)
        bx == Column(bad, TimestampCol)
        by == Column(bad, MemoryMbCol)
        gx == Column(good, TimestampCol)
        gy == Column(good, MemoryMbCol)
        stats ==
            [bad_initial |-> by[1], bad_final |-> Last(by),
             bad_growth |-> Minus(Last(by), by[1]),
             good_initial |-> gy[1], good_final |-> Last(gy),
             good_growth |-> Minus(Last(gy), gy[1]),
             difference |-> GrowthDifference(Minus(Last(by), by[1]),
                                             Minus(Last(gy), gy[1])),
             bad_normalized |-> NormalizeColumn(by),
             good_normalized |-> NormalizeColumn(gy),
             bad_trend |-> ColumnTrend(bx, by),
             good_trend |-> ColumnTrend(gx, gy),
             bad_trend_normalized |-> ColumnTrend(bx, NormalizeColumn(by)),
             good_trend_normalized |-> ColumnTrend(gx, NormalizeColumn(gy))]
    IN  IF ~(HasColumn(bad, TimestampCol) /\ HasColumn(bad, MemoryMbCol))
        THEN failed("KeyError")
        ELSE IF ~(HasColumn(good, TimestampCol) /\ HasColumn(good, MemoryMbCol))
        THEN failed("KeyError")
        ELSE IF PlotError(bx, by, gx, gy, lib) # "none"
        THEN failed(PlotError(bx, by, gx, gy, lib))
        ELSE IF PolyfitError(bx, by, lib) # "none"
        THEN failed(PolyfitError(bx, by, lib))
        ELSE IF PolyfitError(gx, gy, lib) # "none"
        THEN failed(PolyfitError(gx, gy, lib))
        ELSE IF Len(by) = 0
        THEN failed("IndexError")           \* bad_data['memory_mb'].iloc[0]
        ELSE IF Dtype(by) = "str"
        THEN failed("TypeError")            \* bad_final - bad_initial
        ELSE IF Len(gy) = 0
        THEN failed("IndexError")
        ELSE IF Dtype(gy) = "str"
        THEN failed("TypeError")
        ELSE Outcome("none",
                     <<"Saved memory usage comparison to memory_usage_comparison.png",
                       "Saved normalized memory comparison to normalized_memory_comparison.png">>,
                     {"memory_usage_comparison.png", "normalized_memory_comparison.png"},
                     stats)

\* compare_implementations(), given what the two glob patterns found.
Compare(bad, good, lib) ==
    IF ~bad.found \/ ~good.found
    THEN Outcome("none",
                 <<"Could not find memory usage CSV files.",
                   "Please run test_bad_implementation.py and test_good_implementation.py first.">>,
                 {}, NoStats)
    ELSE LET bad_data  == ReadCsv(bad.content)
             good_data == ReadCsv(good.content)
         IN  IF bad_data.err # "none" \/ good_data.err # "none"
             THEN LoadFailed(bad_data, good_data)
             ELSE Analyse(bad_data, good_data, lib)

NoInput == [found |-> FALSE, content |-> <<>>]

Input(file) == [found |-> TRUE, content |-> file]

\* Files the comparison may find: files save_data wrote, and damaged ones.
\* Two series already starting at 0: (0,0),(10,50) and (0,0),(10,5).
ExampleA == WriteCsv(<<0, 10 * Scale>>, <<0, 50 * Scale>>, FALSE)
ExampleB == WriteCsv(<<0, 10 * Scale>>, <<0, 5 * Scale>>, FALSE)

SavedFiles ==
    {WriteCsv(<<>>, <<>>, FALSE),
     WriteCsv(<<0>>, <<BaseRss>>, FALSE),
     WriteCsv(<<0, 2>>, <<BaseRss, BaseRss + 1>>, FALSE),
     WriteCsv(<<0, 1, 5>>, <<BaseRss + 2, BaseRss, BaseRss + 6>>, FALSE),
     ExampleA,
     ExampleB}

DamagedFiles ==
    {<<>>,                                                    \* empty file
     <<<<<<"0", ".", "0">>, <<"1", ".", "0">>>>,              \* no header row
       <<<<"0", ".", "5">>, <<"1", ".", "2", "5">>>>>>,
     <<<<<<"t">>, <<"m">>>>,                                  \* other column names
       <<<<"0", ".", "0">>, <<"1", ".", "0">>>>>>,
     <<DataKeys, <<<<"0", ".", "0">>>>>>,                     \* one short row
     <<DataKeys, <<<<"0", ".", "0">>, <<"1", ".", "0">>>>,    \* a short row of two
       <<<<"0", ".", "5">>>>>>,
     <<DataKeys, <<<<"0", ".", "0">>, <<"a", "b">>>>>>,       \* text for memory
     <<DataKeys, <<<<"a", "b">>, <<"1", ".", "0">>>>>>,       \* text for time
     <<DataKeys, <<<<"0", ".", "0">>, <<"1", ".", "0">>>>,    \* text in row two
       <<<<"x">>, <<"1", ".", "5">>>>>>}

CmpInputs == {NoInput} \cup {Input(f) : f \in SavedFiles \cup DamagedFiles}

compare_implementations ==
    /\ cmp_pc = "ready"
    /\ \E lib \in Libs :
          LET r == Compare(bad_csv, good_csv, lib)
          IN  /\ cmp_raised' = r.raised
              /\ cmp_printed' = r.printed
              /\ cmp_outputs' = r.outputs
              /\ cmp_stats' = r.stats
    /\ cmp_pc' = "done"
    /\ UNCHANGED <<trackerVars, envVars, histVars, result, bad_csv, good_csv,
                   fitVars, demoVars, handlerVars, mainVars>>

(***************************************************************************)
(* Exceptions and tracebacks                                               *)
(*                                                                         *)
(* A traceback is the sequence of its entries from exc.__traceback__       *)
(* along tb_next; an entry is the stack frame it refers to, and a frame is *)
(* [fn, call, payload]: the function, the number of the call that created  *)
(* the frame (0 for the module's own frame, which is one object) and what  *)
(* its local variables keep alive.                                         *)
(***************************************************************************)
StackFrame(fn, call, payload) == [fn |-> fn, call |-> call, payload |-> payload]

Reverse(s) == [n \in 1..Len(s) |-> s[Len(s) + 1 - n]]

\* Variant of Raise: every raise starts a new traceback.
Raise_new_traceback(tb0, stack) == Reverse(stack)

\* raise exc, for an exception object whose __traceback__ is tb0, caught
\* after it has passed the frames of stack (innermost first): each frame
\* puts its entry in front of the traceback the object already has.
Raise(tb0, stack) == Reverse(stack) \o tb0

\* The frames a traceback keeps reachable.
Frames(chain) == {chain[n] : n \in 1..Len(chain)}

(***************************************************************************)
(* traceback_accumulation_demo.py                                          *)
(***************************************************************************)
ModuleFrame == StackFrame("<module>", 0, "none")

\* depth: the while loop along tb_next
Depth(chain) == Len(chain)

\* One iteration of the first loop: raise_with_large_context() raises
\* singleton_exc, the module catches it and counts its traceback.
raise_with_large_context ==
    /\ demo_pc = "singleton"
    /\ raise_count < num_raises
    /\ LET chain == Raise(singleton_exc,
                          <<StackFrame("raise_with_large_context",
                                       raise_count + 1, "big_data"),
                            ModuleFrame>>)
       IN  /\ singleton_exc' = chain
           /\ tb' = chain
           /\ depth' = Depth(chain)
    /\ raise_count' = raise_count + 1
    /\ UNCHANGED <<trackerVars, envVars, histVars, result, cmpVars, fitVars,
                   demo_pc, handlerVars, mainVars>>

\* The first loop is over: the script goes on to the second.
next_loop ==
    /\ demo_pc = "singleton"
    /\ raise_count = num_raises
    /\ demo_pc' = "factory"
    /\ raise_count' = 0
    /\ UNCHANGED <<trackerVars, envVars, histVars, result, cmpVars, fitVars,
                   singleton_exc, tb, depth, handlerVars, mainVars>>

\* One iteration of the second loop: raise_with_large_context_factory()
\* raises a new CustomException; once the except clause is left, only the
\* module variable tb still refers to its traceback.
raise_with_large_context_factory ==
    /\ demo_pc = "factory"
    /\ raise_count < num_raises
    /\ LET chain == Raise(<<>>,
                          <<StackFrame("raise_with_large_context_factory",
                                       raise_count + 1, "big_data"),
                            ModuleFrame>>)
       IN  /\ tb' = chain
           /\ depth' = Depth(chain)
    /\ raise_count' = raise_count + 1
    /\ UNCHANGED <<trackerVars, envVars, histVars, result, cmpVars, fitVars,
                   singleton_exc, demo_pc, handlerVars, mainVars>>

DemoIdle ==
    /\ singleton_exc = <<>>
    /\ demo_pc = "idle"
    /\ raise_count = 0
    /\ tb = <<>>
    /\ depth = 0

(***************************************************************************)
(* bad_implementation.py and good_implementation.py: RequestHandler        *)
(***************************************************************************)
Users    == {"user1", "user2"}             \* UserService.users
Tokens   == {"valid", "invalid", ""}
UserIds  == {"user1", "ghost"}
Payloads == {"absent", "large"}             \* request_data without and with "payload"

Requests == [token : Tokens, user_id : UserIds, payload : Payloads]

\* self.users[user_id]
UserRecord(user_id) ==
    IF user_id = "user1" THEN [name |-> "John", email |-> "john@example.com"]
    ELSE [name |-> "Alice", email |-> "alice@example.com"]

\* request_data.get("payload", {"default": "x" * 10000})
Payload(req) == IF req.payload = "absent" THEN "default" ELSE req.payload

APIServiceException(message, status_code, error_code) ==
    [message |-> message, status_code |-> status_code, error_code |-> error_code]

\* bad_implementation.Errors: the exception objects made at class creation.
ErrorsBad ==
    [user_not_found |-> APIServiceException("User was not found", 404, "USER_NOT_FOUND"),
     token_invalid |-> APIServiceException("The provided token is invalid", 401,
                                           "TOKEN_INVALID"),
     authentication_failed |-> APIServiceException("Authentication failed", 401,
                                                   "AUTH_FAILED"),
     server_error |-> APIServiceException("Internal server error occurred", 500,
                                          "SERVER_ERROR")]

\* good_implementation.Errors: what a call of each static method returns.
ErrorsGood ==
    [user_not_found |-> APIServiceException("User was not found", 404, "USER_NOT_FOUND"),
     token_invalid |-> APIServiceException("The provided token is invalid", 401,
                                           "TOKEN_INVALID"),
     authentication_failed |-> APIServiceException("Authentication failed", 401,
                                                   "AUTH_FAILED"),
     server_error |-> APIServiceException("Internal server error occurred", 500,
                                          "SERVER_ERROR")]

\* The exception object `raise Errors.err` / `raise Errors.err()` raises.
Raised(module, err) == IF module = "bad" THEN ErrorsBad[err] ELSE ErrorsGood[err]

\* The dictionary handle_request returns.  A field the dictionary does not
\* have is "none".
NoResponse == [status |-> "none", data |-> "none", error |-> "none"]

\* return {"status": "success", "data": {"user": user, "auth": auth_info}}
Success(user, auth_info) ==
    [status |-> "success", data |-> [user |-> user, auth |-> auth_info],
     error |-> "none"]

\* except APIException as e: return {"status": "error", "error": {...}}
ErrorResponse(e) ==
    [status |-> "error", data |-> "none",
     error |-> [message |-> e.message, status_code |-> e.status_code,
                error_code |-> e.error_code]]

\* Variant of Failure: the user is looked up before the token is checked.
Failure_lookup_first(req) ==
    IF req.user_id \notin Users THEN "user_not_found"
    ELSE IF req.token = "" \/ req.token = "invalid" THEN "token_invalid"
    ELSE "none"

\* The attribute of Errors a request fails with: authenticate_user is
\* called first, get_user after it.
Failure(req) ==
    IF req.token = "" \/ req.token = "invalid" THEN "token_invalid"
    ELSE IF req.user_id \notin Users THEN "user_not_found"
    ELSE "none"

\* The frames the exception passes until handle_request catches it.  The
\* frame of handle_request holds request_data and the payload.
FailureStack(req, call) ==
    <<StackFrame(IF Failure(req) = "token_invalid"
                 THEN "authenticate_user" ELSE "get_user", call, "none"),
      StackFrame("handle_request", call, Payload(req))>>

\* What refers to the exception object raised while the except clause runs:
\* the name e and, in the bad implementation, the attribute of class Errors.
Referrers(module, err) ==
    IF module = "bad" THEN {<<"Errors", err>>, <<"e">>} ELSE {<<"e">>}

\* Variant of AfterExcept: the name e stays bound.
AfterExcept_keeps_e(refs) == refs

\* Leaving `except APIException as e` unbinds e.
AfterExcept(refs) == refs \ {<<"e">>}

NoErrors == [token_invalid |-> <<>>, user_not_found |-> <<>>]

\* RequestHandler.handle_request(request_data)
handle_request ==
    /\ impl \in {"bad", "good"}
    /\ Len(handled) < MaxRequests
    /\ \E req \in Requests :
          LET call == Len(handled) + 1
              err  == Failure(req)
              tb0  == IF impl = "bad" THEN errors[err] ELSE <<>>
              tb1  == Raise(tb0, FailureStack(req, call))
              kept == AfterExcept(Referrers(impl, err)) # {}
          IN  /\ handled' = Append(handled, req)
              /\ IF err = "none"
                 THEN /\ response' = Success(UserRecord(req.user_id),
                                              [user_id |-> "user1",
                                               authenticated |-> TRUE])
                      /\ UNCHANGED <<errors, live>>
                 ELSE /\ response' = ErrorResponse(Raised(impl, err))
                      /\ errors' = (IF impl = "bad"
                                    THEN [errors EXCEPT ![err] = tb1]
                                    ELSE errors)
                      /\ live' = (IF impl = "good" /\ kept
                                  THEN live \cup {tb1}
                                  ELSE live)
    /\ UNCHANGED <<trackerVars, envVars, histVars, result, cmpVars, fitVars,
                   demoVars, impl, mainVars>>

HandlerIdle ==
    /\ impl = "none"
    /\ errors = NoErrors
    /\ live = {}
    /\ handled = <<>>
    /\ response = NoResponse

(***************************************************************************)
(* demo.py, __main__: the two test runs and the comparison that follows.   *)
(*                                                                         *)
(* File names and glob patterns are strings; the working directory is a    *)
(* function from the names of its CSV files to their content.              *)
(***************************************************************************)
\* The characters of file names, in the order sorted() compares them.
Alphabet == "*-.0123456789_abcdefghijklmnopqrstuvwxyz"

CharAt(str, n) == SubSeq(str, n, n)

CharRank(c) == CHOOSE r \in 1..Len(Alphabet) : CharAt(Alphabet, r) = c

RECURSIVE StrLess(_, _)
\* s < t, as Python compares strings.
StrLess(str, other) ==
    IF Len(other) = 0 THEN FALSE
    ELSE IF Len(str) = 0 THEN TRUE
    ELSE IF CharAt(str, 1) # CharAt(other, 1)
         THEN CharRank(CharAt(str, 1)) < CharRank(CharAt(other, 1))
    ELSE StrLess(SubSeq(str, 2, Len(str)), SubSeq(other, 2, Len(other)))

\* Variant of GlobMatch: any name ending as the pattern ends is matched.
GlobMatch_suffix_only(name, prefix, suffix) ==
    /\ Len(name) >= Len(suffix)
    /\ SubSeq(name, Len(name) - Len(suffix) + 1, Len(name)) = suffix

\* fnmatch of name against the pattern prefix*suffix.
GlobMatch(name, prefix, suffix) ==
    /\ Len(name) >= Len(prefix) + Len(suffix)
    /\ SubSeq(name, 1, Len(prefix)) = prefix
    /\ SubSeq(name, Len(name) - Len(suffix) + 1, Len(name)) = suffix

\* glob.glob(prefix + "*" + suffix) in the directory dir.
Glob(dir, prefix, suffix) == {name \in DOMAIN dir : GlobMatch(name, prefix, suffix)}

\* sorted(names)[-1]
SortedLast(names) == CHOOSE name \in names : \A other \in names : ~StrLess(name, other)

\* The file compare_implementations settles on for one pattern.
Found(dir, prefix, suffix) ==
    IF Glob(dir, prefix, suffix) = {} THEN NoInput
    ELSE Input(dir[SortedLast(Glob(dir, prefix, suffix))])

\* The names it reads: none unless both patterns match something.
NamesRead(dir) ==
    LET bad_csvs  == Glob(dir, "bad_implementation_memory_", ".csv")
        good_csvs == Glob(dir, "good_implementation_memory_", ".csv")
    IN  IF bad_csvs = {} \/ good_csvs = {} THEN {}
        ELSE {SortedLast(bad_csvs), SortedLast(good_csvs)}

\* open(name, "w"): the file is created or replaced.
WriteFile(dir, name, content) ==
    [n \in DOMAIN dir \cup {name} |-> IF n = name THEN content ELSE dir[n]]

\* The series a test run of demo.py can have measured: the samples of
\* start() and stop() and of the record() calls between them.
RunSeries ==
    {[timestamps |-> <<0, 1>>, memory_usage |-> <<BaseRss, BaseRss>>],
     [timestamps |-> <<0, 1>>, memory_usage |-> <<BaseRss, BaseRss + 1>>],
     [timestamps |-> <<0, 1, 2>>, memory_usage |-> <<BaseRss, BaseRss, BaseRss>>],
     [timestamps |-> <<0, 1, 2>>,
      memory_usage |-> <<BaseRss, BaseRss + 1, BaseRss + 2>>]}

\* CSV files other scripts may have left in the directory.
StaleFiles ==
    [n \in {"bad_implementation_memory_error.csv",
             "bad_implementation_memory_success.csv",
             "good_implementation_memory_error.csv"}
       |-> IF n = "bad_implementation_memory_success.csv"
           THEN WriteCsv(<<0, 2>>, <<BaseRss, BaseRss>>, FALSE)
           ELSE WriteCsv(<<0, 2>>, <<BaseRss, BaseRss + 1>>, FALSE)]

Directories == {[n \in names |-> StaleFiles[n]] : names \in SUBSET DOMAIN StaleFiles}

\* A test run of demo.py, to the file it saves under name.
TestRun(name, pc_after) ==
    /\ \E run \in RunSeries :
          files' = WriteFile(files, name,
                             WriteCsv(run.timestamps, run.memory_usage, FALSE))
    /\ files_written' = files_written \cup {name}
    /\ main_pc' = pc_after
    /\ UNCHANGED <<trackerVars, envVars, histVars, result, cmpVars, fitVars,
                   demoVars, handlerVars, files_read>>

\* test_singleton_pattern(iterations)
test_singleton_pattern ==
    /\ main_pc = "test_singleton_pattern"
    /\ TestRun("demo_singleton_memory.csv", "test_factory_pattern")

\* test_factory_pattern(iterations)
test_factory_pattern ==
    /\ main_pc = "test_factory_pattern"
    /\ TestRun("demo_factory_memory.csv", "compare_implementations")

\* visualize_memory.compare_implementations(), called by __main__ in the
\* directory the two runs have written to.
main_compare_implementations ==
    /\ main_pc = "compare_implementations"
    /\ bad_csv' = Found(files, "bad_implementation_memory_", ".csv")
    /\ good_csv' = Found(files, "good_implementation_memory_", ".csv")
    /\ files_read' = NamesRead(files)
    /\ \E lib \in Libs :
          LET r == Compare(bad_csv', good_csv', lib)
          IN  /\ cmp_raised' = r.raised
              /\ cmp_printed' = r.printed
              /\ cmp_outputs' = r.outputs
              /\ cmp_stats' = r.stats
    /\ cmp_pc' = "done"
    /\ main_pc' = "done"
    /\ UNCHANGED <<trackerVars, envVars, histVars, result, fitVars, demoVars,
                   handlerVars, files, files_written>>

MainIdle ==
    /\ files = << >>
    /\ main_pc = "idle"
    /\ files_written = {}
    /\ files_read = {}

CmpIdle ==
    /\ bad_csv = NoInput
    /\ good_csv = NoInput
    /\ cmp_pc = "idle"
    /\ cmp_raised = "none"
    /\ cmp_printed = <<>>
    /\ cmp_outputs = {}
    /\ cmp_stats = NoStats

\* MemoryTracker.__init__
TrackerInit ==
    /\ label \in Labels
    /\ start_time = None
    /\ timestamps = <<>>
    /\ memory_usage = <<>>
    /\ now = Epoch
    /\ retained = 0
    /\ garbage = 0
    /\ lastCall = "init"
    /\ raised = "none"
    /\ steps = <<>>
    /\ k = 0
    /\ stops = 0
    /\ result = NoResult

FitIdle ==
    /\ fit_pc = "idle"
    /\ fit_x = <<>>
    /\ fit_y = <<>>
    /\ fit_out = NoTrend

Init == TrackerInit /\ CmpIdle /\ FitIdle /\ DemoIdle /\ HandlerIdle /\ MainIdle

Next ==
    \/ start
    \/ record
    \/ stop
    \/ save_data
    \/ plot
    \/ create_comparison_chart
    \/ read_csv
    \/ calculate_trend
    \/ Workload

Spec == Init /\ [][Next]_vars

CmpInit ==
    /\ TrackerInit
    /\ bad_csv \in CmpInputs
    /\ good_csv \in CmpInputs
    /\ cmp_pc = "ready"
    /\ cmp_raised = "none"
    /\ cmp_printed = <<>>
    /\ cmp_outputs = {}
    /\ cmp_stats = NoStats
    /\ FitIdle
    /\ DemoIdle
    /\ HandlerIdle
    /\ MainIdle

CmpNext == compare_implementations

SpecCompare == CmpInit /\ [][CmpNext]_vars

(***************************************************************************)
(* np.polyfit on its own, over every short sequence of points.             *)
(***************************************************************************)
FitXs == {0, 1, 2}
FitYs == {0, 1, 2, 3}

\* (0,100), (1,110), (2,120), (3,130), in fixed point.
ExampleX == <<0 * Scale, 1 * Scale, 2 * Scale, 3 * Scale>>
ExampleY == <<100 * Scale, 110 * Scale, 120 * Scale, 130 * Scale>>

FitInputs ==
    {<<ExampleX, ExampleY>>} \cup
    UNION {[1..n -> FitXs] \X [1..n -> FitYs] : n \in 0..MaxFitLen}

\* z = np.polyfit(x, y, 1)
polyfit ==
    /\ fit_pc = "ready"
    /\ fit_out' = Polyfit(fit_x, fit_y)
    /\ fit_pc' = "done"
    /\ UNCHANGED <<trackerVars, envVars, histVars, result, cmpVars, fit_x, fit_y,
                   demoVars, handlerVars, mainVars>>

FitInit ==
    /\ TrackerInit
    /\ CmpIdle
    /\ \E in \in FitInputs : fit_x = in[1] /\ fit_y = in[2]
    /\ fit_pc = "ready"
    /\ fit_out = NoTrend
    /\ DemoIdle
    /\ HandlerIdle
    /\ MainIdle

FitNext == polyfit

SpecFit == FitInit /\ [][FitNext]_vars

(***************************************************************************)
(* The traceback demo, run from its first line.                            *)
(***************************************************************************)
TracebackInit ==
    /\ TrackerInit
    /\ CmpIdle
    /\ FitIdle
    /\ HandlerIdle
    /\ MainIdle
    /\ singleton_exc = <<>>
    /\ demo_pc = "singleton"
    /\ raise_count = 0
    /\ tb = <<>>
    /\ depth = 0

TracebackNext ==
    \/ raise_with_large_context
    \/ next_loop
    \/ raise_with_large_context_factory

SpecTraceback == TracebackInit /\ [][TracebackNext]_vars

(***************************************************************************)
(* A RequestHandler of either module, handed any requests.                 *)
(***************************************************************************)
HandlerInit ==
    /\ TrackerInit
    /\ CmpIdle
    /\ FitIdle
    /\ DemoIdle
    /\ MainIdle
    /\ impl \in {"bad", "good"}
    /\ errors = NoErrors
    /\ live = {}
    /\ handled = <<>>
    /\ response = NoResponse

HandlerNext == handle_request

SpecHandlers == HandlerInit /\ [][HandlerNext]_vars

(***************************************************************************)
(* demo.py run as a script, in any directory other scripts have used.      *)
(***************************************************************************)
MainInit ==
    /\ TrackerInit
    /\ CmpIdle
    /\ FitIdle
    /\ DemoIdle
    /\ HandlerIdle
    /\ files \in Directories
    /\ main_pc = "test_singleton_pattern"
    /\ files_written = {}
    /\ files_read = {}

MainNext ==
    \/ test_singleton_pattern
    \/ test_factory_pattern
    \/ main_compare_implementations

SpecMain == MainInit /\ [][MainNext]_vars

(***************************************************************************)
(* The lifecycle state of the series, read off the tracker and its call    *)
(* history: Uninitialized until start() has set start_time, Closed once    *)
(* stop() has been called since the last start(), Active in between.       *)
(***************************************************************************)
State ==
    IF start_time = None THEN "Uninitialized"
    ELSE IF stops > 0 THEN "Closed"
    ELSE "Active"

Sampling == {"start", "record", "stop"}

Readers == {"save_data", "plot", "create_comparison_chart"}

IsPrefix(s, t) == Len(s) <= Len(t) /\ SubSeq(t, 1, Len(s)) = s

ListsUnchanged == timestamps' = timestamps /\ memory_usage' = memory_usage

AppendedOne ==
    /\ Len(timestamps') = Len(timestamps) + 1
    /\ Len(memory_usage') = Len(memory_usage) + 1

\* C1 as stated: the state only moves Uninitialized -> Active -> Closed (a new
\* start() re-enters Active), and once Closed no record() appends a sample.
C1_ClosedIsTerminal ==
    [][/\ \/ State' = State
          \/ State' = "Active" /\ lastCall' = "start"
          \/ State = "Active" /\ State' = "Closed" /\ lastCall' = "stop"
       /\ (State = "Closed" /\ lastCall' = "record") => ListsUnchanged]_vars

\* C1 amended: start() always enters Active, stop() moves Active to Closed,
\* no other call changes the state and no state is skipped; but Closed is
\* not terminal for sampling: a record() after stop() appends one sample
\* and leaves the series Closed.
C1_Lifecycle ==
    [][/\ \/ State' = State
          \/ State' = "Active" /\ lastCall' = "start"
          \/ State = "Active" /\ State' = "Closed" /\ lastCall' = "stop"
       /\ lastCall' = "start" => State' = "Active"
       /\ (State = "Active" /\ lastCall' = "stop") => State' = "Closed"
       /\ (State = "Closed" /\ lastCall' = "record")
             => (AppendedOne /\ State' = "Closed")]_vars

\* start(), stop(), then record(): three samples on a Closed series.
C1_Witness ==
    /\ lastCall = "record"
    /\ State = "Closed"
    /\ k = 1
    /\ Len(timestamps) = 3

\* C2 as stated: record() outside Active fails with StateError and appends
\* no sample.
C2_RecordOutsideActiveFails ==
    [][(State # "Active" /\ lastCall' = "record")
          => (raised' = "StateError" /\ ListsUnchanged)]_vars

\* C2 amended: record() never fails with StateError: in every state it
\* returns normally and appends exactly one sample, whose elapsed time is 0
\* while the tracker is Uninitialized.
C2_RecordAlwaysAppends ==
    [][lastCall' = "record"
          => /\ raised' = "none"
             /\ AppendedOne
             /\ State = "Uninitialized" => Last(timestamps') = 0]_vars

\* record() has appended to a tracker that was never started.
C2_Witness ==
    /\ lastCall = "record"
    /\ State = "Uninitialized"
    /\ timestamps = <<0>>

\* C3 as stated: stop() outside Active (a second stop(), a stop() before any
\* start()) fails with StateError and appends no sample.
C3_StopOutsideActiveFails ==
    [][(State # "Active" /\ lastCall' = "stop")
          => (raised' = "StateError" /\ ListsUnchanged)]_vars

\* C3 amended: stop() never fails: every stop(), also the second of two
\* consecutive ones and one before any start(), returns normally and appends
\* exactly one sample.
C3_StopAlwaysAppends ==
    [][lastCall' = "stop" => (raised' = "none" /\ AppendedOne)]_vars

\* start(), stop(), stop(): the second stop() has appended a third sample.
C3_Witness ==
    /\ lastCall = "stop"
    /\ State = "Closed"
    /\ stops = 2
    /\ Len(timestamps) = 3

\* C4: right after start() the series has 1 sample, after k further record()
\* calls 1 + k, after the stop() that follows them 2 + k; it is never empty
\* once start() has returned.
C4_SampleCount ==
    start_time # None =>
        /\ lastCall = "start" => Len(timestamps) = 1
        /\ stops = 0 => Len(timestamps) = 1 + k
        /\ (stops = 1 /\ lastCall = "stop") => Len(timestamps) = 2 + k
        /\ Len(timestamps) >= 1

\* start(), one record(), stop(): 2 + 1 samples.
C4_Witness ==
    /\ start_time # None
    /\ lastCall = "stop"
    /\ stops = 1
    /\ k = 1
    /\ Len(timestamps) = 3

\* C5: start() in any state sets the start time to the clock, leaves the
\* series Active and holding exactly one sample, measured by this call; no
\* earlier sample survives.
C5_StartResets ==
    [][lastCall' = "start"
          => /\ start_time' = now
             /\ State' = "Active"
             /\ timestamps' = <<now' - start_time'>>
             /\ memory_usage' = <<ToMB(ReadRss(retained', garbage'))>>]_vars

\* A restart: start() found two samples in the tracker and left only the
\* baseline of the new, later series.
C5_Witness ==
    /\ lastCall = "start"
    /\ steps[1].val = 2
    /\ start_time > Epoch
    /\ Len(timestamps) = 1

\* C6: elapsed_seconds is non-decreasing in sample order.
C6_ElapsedNonDecreasing ==
    \A i, j \in 1..Len(timestamps) : i < j => timestamps[i] <= timestamps[j]

\* Three samples whose elapsed time has grown.
C6_Witness ==
    /\ start_time # None
    /\ Len(timestamps) = 3
    /\ timestamps[1] < timestamps[3]

\* C7: record() and stop() only append one sample and leave the earlier
\* ones, the label and the start time as they were; save_data, plot and the
\* comparison chart leave the tracker unchanged.
C7_SamplesNeverModified ==
    [][/\ lastCall' \in {"record", "stop"}
             => /\ AppendedOne
                /\ IsPrefix(timestamps, timestamps')
                /\ IsPrefix(memory_usage, memory_usage')
                /\ label' = label
                /\ start_time' = start_time
       /\ lastCall' \in Readers => UNCHANGED trackerVars]_vars

\* The chart of a closed series was drawn from normalized copies: the
\* curve differs from the tracker's own list.
C7_Witness ==
    /\ lastCall = "create_comparison_chart"
    /\ State = "Closed"
    /\ result.kind = "curves"
    /\ Len(result.a) = Len(memory_usage)
    /\ result.a # memory_usage

\* C8: every sample is measured after a collection pass of the same call:
\* the call's steps are gc.collect, memory_info, time, append in this order,
\* and the stored value is the rss read with no uncollected garbage in it.
C8_QuiescenceBeforeRead ==
    lastCall \in Sampling =>
        /\ [i \in 1..Len(steps) |-> steps[i].op]
              = <<"enter", "gc.collect", "memory_info", "time", "append">>
        /\ steps[3].val = ReadRss(retained, 0)
        /\ Last(memory_usage) = ToMB(steps[3].val)
        /\ steps[5].val = Len(memory_usage)

\* A record() whose collection pass freed garbage the workload had left.
C8_Witness ==
    /\ lastCall = "record"
    /\ steps[2].op = "gc.collect"
    /\ steps[2].val > 0

\* C9: loading the file save_data wrote for a non-empty series gives a
\* DataFrame with the columns the readers ask for, as many rows as the
\* series has samples and, row by row, the same elapsed time and memory
\* value.
C9_RoundTrip ==
    [][(lastCall' = "read_csv" /\ Len(timestamps) > 0)
          => LET df == result'.frame
             IN  /\ df.err = "none"
                 /\ HasColumn(df, TimestampCol)
                 /\ HasColumn(df, MemoryMbCol)
                 /\ Len(df.data) = Len(timestamps)
                 /\ Column(df, TimestampCol)
                       = [i \in 1..Len(timestamps) |-> NumCell(timestamps[i])]
                 /\ Column(df, MemoryMbCol)
                       = [i \in 1..Len(memory_usage) |-> NumCell(memory_usage[i])]]_vars

\* A saved and reloaded series of three samples with a fractional elapsed
\* time and two different memory values.
C9_Witness ==
    /\ lastCall = "read_csv"
    /\ result.kind = "frame"
    /\ Len(result.frame.data) = 3
    /\ Values(Column(result.frame, TimestampCol)) = timestamps
    /\ Values(Column(result.frame, MemoryMbCol)) = memory_usage
    /\ \E i \in 1..3 : timestamps[i] % Scale # 0
    /\ memory_usage[1] # memory_usage[3]

\* A persisted series that is not well formed: its header row is missing or
\* is not the two expected names, a data row has fewer than two fields, or
\* a field is not a number.
Malformed(file) ==
    \/ Len(file) = 0
    \/ file[1] # <<TimestampCol, MemoryMbCol>>
    \/ \E i \in 2..Len(file) :
          \/ Len(file[i]) < 2
          \/ \E j \in 1..Len(file[i]) : ~IsNumeric(file[i][j])

BothFound == bad_csv.found /\ good_csv.found

SomeMalformed == Malformed(bad_csv.content) \/ Malformed(good_csv.content)

ReadFails == ReadCsv(bad_csv.content).err # "none" \/ ReadCsv(good_csv.content).err # "none"

LacksColumn(file) ==
    ~(HasColumn(ReadCsv(file), TimestampCol) /\ HasColumn(ReadCsv(file), MemoryMbCol))

\* C10 as stated: a comparison over a malformed persisted series fails with
\* PersistenceError, delivered to the caller, and produces no output.
C10_MalformedRaisesPersistenceError ==
    (cmp_pc = "done" /\ BothFound /\ SomeMalformed)
        => (cmp_raised = "PersistenceError" /\ cmp_outputs = {})

\* C10 amended: compare_implementations never delivers a PersistenceError.
\* When pd.read_csv itself raises (an empty file), the exception is caught,
\* "Error loading CSV files" is printed, the function returns normally and
\* no comparison output is written.  When both files load and one lacks the
\* timestamp or the memory_mb column, KeyError is delivered to the caller
\* and no output is written.  A file with at least one row is not rejected
\* by the load, whatever its header, short rows or non-numeric fields.
C10_LoadFailureSwallowed ==
    (cmp_pc = "done" /\ BothFound) =>
        /\ cmp_raised # "PersistenceError"
        /\ ReadFails
              => /\ cmp_raised = "none"
                 /\ cmp_printed = <<"Error loading CSV files">>
                 /\ cmp_outputs = {}
        /\ (~ReadFails /\ (LacksColumn(bad_csv.content) \/ LacksColumn(good_csv.content)))
              => (cmp_raised = "KeyError" /\ cmp_outputs = {})
        /\ (Len(bad_csv.content) > 0 /\ Len(good_csv.content) > 0)
              => cmp_printed # <<"Error loading CSV files">>

\* An empty bad file beside a well-formed good one: the load failure is
\* printed and the call returns normally.
C10_Witness ==
    /\ cmp_pc = "done"
    /\ BothFound
    /\ bad_csv.content = <<>>
    /\ ~Malformed(good_csv.content)
    /\ cmp_raised = "none"
    /\ cmp_printed = <<"Error loading CSV files">>

\* A damaged file from which comparison output is produced all the same: a
\* single row without its memory field.
C10_OutputFromShortRow ==
    /\ cmp_pc = "done"
    /\ BothFound
    /\ Malformed(bad_csv.content)
    /\ cmp_raised = "none"
    /\ cmp_outputs # {}
    /\ cmp_stats.bad_growth = NaN

\* The number of samples a persisted series holds once loaded.
Samples(file) == Len(ReadCsv(file).data)

SomeEmpty == Samples(bad_csv.content) = 0 \/ Samples(good_csv.content) = 0

BothLoadWithColumns ==
    /\ BothFound
    /\ ~ReadFails
    /\ ~LacksColumn(bad_csv.content)
    /\ ~LacksColumn(good_csv.content)

\* C11 as stated: a comparison in which one series has zero samples fails
\* with InsufficientDataError and produces no output.
C11_EmptyRaisesInsufficientData ==
    (cmp_pc = "done" /\ BothLoadWithColumns /\ SomeEmpty)
        => (cmp_raised = "InsufficientDataError" /\ cmp_outputs = {})

\* C11 amended: the comparison has no InsufficientDataError.  Given two loaded
\* series of which at least one has zero samples, compare_implementations
\* delivers an exception to its caller before any statistics are computed
\* or any image file is written, and substitutes no default for the missing
\* baseline; when both files are otherwise well formed the exception is the
\* IndexError of .iloc[0] on the empty column.
C11_EmptyRaisesIndexError ==
    (cmp_pc = "done" /\ BothLoadWithColumns /\ SomeEmpty) =>
        /\ cmp_raised \notin {"none", "InsufficientDataError"}
        /\ cmp_outputs = {}
        /\ cmp_stats = NoStats
        /\ ~SomeMalformed => cmp_raised = "IndexError"

\* A series of two samples compared with a header-only file.
C11_Witness ==
    /\ cmp_pc = "done"
    /\ BothFound
    /\ ~SomeMalformed
    /\ Samples(bad_csv.content) = 2
    /\ Samples(good_csv.content) = 0
    /\ cmp_raised = "IndexError"

\* The comparison chart of two live trackers behaves alike: with an empty
\* tracker list it raises IndexError and draws nothing, and whenever it
\* returns normally both curves hold at least one point.
C11_ChartNeedsSamples ==
    [][lastCall' = "create_comparison_chart"
          => /\ Len(memory_usage) = 0
                   => (raised' = "IndexError" /\ result' = NoResult)
             /\ raised' = "none"
                   => (Len(result'.a) > 0 /\ Len(result'.b) > 0)]_vars

\* C12 as stated: fitting a trend on 0 or 1 samples raises nothing and
\* returns slope 0.0 with the sole sample's value (or 0) as intercept.
C12_DegenerateFitIsZeroSlope ==
    [][(lastCall' = "plot" /\ Len(timestamps) < 2)
          => /\ raised' = "none"
             /\ result'.trend
                   = Trend("fit", 0, 1,
                           IF Len(memory_usage) = 1 THEN memory_usage[1] ELSE 0)]_vars

\* C12 amended: with fewer than 2 samples no trend is fitted at all.  plot
\* and the comparison chart skip np.polyfit, raise nothing for it and
\* produce no slope, intercept or sample count; the unguarded np.polyfit of
\* run_singleton_demo and run_factory_demo is only reached after start()
\* and stop(), with at least 2 samples.
C12_NoFitBelowTwoSamples ==
    [][/\ (lastCall' = "plot" /\ Len(timestamps) < 2)
             => /\ raised' = "none"
                /\ result'.kind = "curves"
                /\ result'.trend = NoTrend
       /\ (lastCall' = "create_comparison_chart" /\ raised' = "none")
             => /\ Len(result'.a) < 2 => result'.trend = NoTrend
                /\ Len(result'.b) < 2 => result'.trend_b = NoTrend
       /\ (lastCall' = "create_comparison_chart" /\ Len(timestamps) = 1)
             => raised' \in {"none", "IndexError"}
       /\ lastCall' = "calculate_trend"
             => /\ Len(timestamps) >= 2
                /\ raised' # "TypeError"
                /\ raised' = "none" => result'.trend.kind # "none"]_vars

\* plot() of a series that holds only its baseline sample: the curve is
\* drawn without a trend.
C12_Witness ==
    /\ lastCall = "plot"
    /\ start_time # None
    /\ Len(timestamps) = 1
    /\ result.kind = "curves"
    /\ result.trend = NoTrend

\* The points (x[i], y[i]) lie on the line y = (an + bn * x) / bd.
OnLine(x, y, an, bn, bd) == \A i \in 1..Len(x) : y[i] * bd = an + bn * x[i]

DistinctXs(x) == \E i, j \in 1..Len(x) : x[i] # x[j]

Permuted(s, p) == [i \in 1..Len(s) |-> s[p[i]]]

\* C13: np.polyfit(x, y, 1) is the least-squares line.  For points that lie
\* on a line y = a + b * x and have two distinct x values it returns slope b
\* and intercept a; (0,100),(1,110),(2,120),(3,130) gives slope 10 and
\* intercept 100; the points in any other order give the same result.
C13_LeastSquaresLine ==
    fit_pc = "done" =>
        /\ DistinctXs(fit_x) => fit_out.kind = "fit"
        /\ \A an \in -8..8, bn \in -3..3, bd \in 1..2 :
              (DistinctXs(fit_x) /\ OnLine(fit_x, fit_y, an, bn, bd))
                 => /\ fit_out.num * bd = bn * fit_out.den
                    /\ fit_out.inum * bd = an * fit_out.den
        /\ (fit_x = ExampleX /\ fit_y = ExampleY)
              => /\ fit_out.num = 10 * fit_out.den
                 /\ fit_out.inum = 100 * Scale * fit_out.den
        /\ \A p \in Permutations(1..Len(fit_x)) :
              Polyfit(Permuted(fit_x, p), Permuted(fit_y, p)) = fit_out

\* Three points on the line y = 3 - x, given out of order.
C13_Witness ==
    /\ fit_pc = "done"
    /\ fit_x = <<2, 0, 1>>
    /\ fit_y = <<1, 3, 2>>
    /\ fit_out.kind = "fit"
    /\ fit_out.num = -fit_out.den
    /\ fit_out.inum = 3 * fit_out.den

\* The memory_mb values of a well-formed persisted series.
MemoryOf(file) == Values(Column(ReadCsv(file), MemoryMbCol))

\* The normalized curve and the growth reported for a series with the
\* memory values mu: every value less the first, and the last less the first.
NormalizedAsClaimed(mu, normalized, growth) ==
    /\ Len(normalized) = Len(mu)
    /\ normalized[1] = NumCell(0)
    /\ \A i \in 1..Len(mu) : normalized[i] = NumCell(mu[i] - mu[1])
    /\ growth = Last(normalized)
    /\ growth = NumCell(Last(mu) - mu[1])

Compared == cmp_pc = "done" /\ BothFound /\ ~SomeMalformed /\ cmp_raised = "none"

\* C14: in a finished comparison each series is normalized by subtracting
\* its own first memory value from every value, so its first normalized
\* value is 0, and the growth reported for it is its last normalized value,
\* which is its final value less its initial value.
C14_NormalizedGrowth ==
    Compared =>
        /\ NormalizedAsClaimed(MemoryOf(bad_csv.content),
                               cmp_stats.bad_normalized, cmp_stats.bad_growth)
        /\ NormalizedAsClaimed(MemoryOf(good_csv.content),
                               cmp_stats.good_normalized, cmp_stats.good_growth)

\* A series whose first value is not its smallest, compared with a series
\* that starts elsewhere: each is normalized by its own first value.
C14_Witness ==
    /\ Compared
    /\ MemoryOf(bad_csv.content) = <<BaseRss + 2, BaseRss, BaseRss + 6>>
    /\ MemoryOf(good_csv.content) = <<BaseRss, BaseRss + 1>>
    /\ cmp_stats.bad_normalized = <<NumCell(0), NumCell(-2), NumCell(4)>>
    /\ cmp_stats.good_normalized = <<NumCell(0), NumCell(1)>>
    /\ cmp_stats.bad_growth = NumCell(4)

\* The comparison chart of two live trackers normalizes alike: each curve
\* is the tracker's memory list less its own first value.
C14_ChartNormalized ==
    [][(lastCall' = "create_comparison_chart" /\ raised' = "none")
          => /\ result'.a[1] = 0
             /\ result'.b[1] = 0
             /\ \A i \in 1..Len(memory_usage) :
                   result'.a[i] = memory_usage[i] - memory_usage[1]]_vars

\* C15: the comparison reports the growth of the first (bad) series less
\* the growth of the second (good) one; two series with the same samples
\* give 0; (0,0),(10,50) against (0,0),(10,5) gives growths 50 and 5 and
\* difference 45.
C15_GrowthDifference ==
    Compared =>
        /\ cmp_stats.difference
              = NumCell(cmp_stats.bad_growth.num - cmp_stats.good_growth.num)
        /\ bad_csv.content = good_csv.content => cmp_stats.difference = NumCell(0)
        /\ (bad_csv.content = ExampleA /\ good_csv.content = ExampleB)
              => /\ cmp_stats.bad_growth = NumCell(50 * Scale)
                 /\ cmp_stats.good_growth = NumCell(5 * Scale)
                 /\ cmp_stats.difference = NumCell(45 * Scale)

\* The example of the two baseline-zero series, compared.
C15_Witness ==
    /\ Compared
    /\ bad_csv.content = ExampleA
    /\ good_csv.content = ExampleB
    /\ cmp_stats.difference = NumCell(45 * Scale)

\* C16: raising the one singleton_exc again and again makes its traceback
\* grow: at raise i the frame count is 2 * i, and the frame of every
\* earlier call of raise_with_large_context is still on it.  Raising a new
\* exception each time gives a frame count of 2 at every raise, with only
\* the frames of that raise on its traceback.
C16_TracebackAccumulates ==
    /\ (demo_pc = "singleton" /\ raise_count >= 1) =>
          /\ depth = 2 * raise_count
          /\ tb = singleton_exc
          /\ \A j \in 1..raise_count :
                StackFrame("raise_with_large_context", j, "big_data")
                   \in Frames(singleton_exc)
    /\ (demo_pc = "factory" /\ raise_count >= 1) =>
          /\ depth = 2
          /\ Frames(tb) = {ModuleFrame,
                           StackFrame("raise_with_large_context_factory",
                                      raise_count, "big_data")}
          /\ Depth(singleton_exc) = 2 * num_raises

\* The third raise of the second loop: the singleton's traceback still
\* holds the frames of every raise of the first loop, the new exception's
\* holds two.
C16_Witness ==
    /\ demo_pc = "factory"
    /\ raise_count = 3
    /\ depth = 2
    /\ Depth(singleton_exc) = 2 * num_raises
    /\ StackFrame("raise_with_large_context", 1, "big_data") \in Frames(singleton_exc)

\* What a RequestHandler keeps reachable once handle_request has returned.
HandlerRetained ==
    Frames(errors.token_invalid) \cup Frames(errors.user_not_found)
       \cup UNION {Frames(chain) : chain \in live}

FailedCalls == {c \in 1..Len(handled) : Failure(handled[c]) # "none"}

\* C17: after any sequence of requests the good (factory) handler keeps no
\* exception, traceback frame or payload reachable, while the bad
\* (singleton) handler keeps, for every failing request handled so far, the
\* frame of its handle_request call with the request's payload and the frame
\* of the call that raised: two frames more with each failing request, none
\* ever dropped.
C17_HandlerRetention ==
    /\ impl = "good" => (live = {} /\ HandlerRetained = {})
    /\ impl = "bad" =>
          /\ \A c \in FailedCalls :
                /\ StackFrame("handle_request", c, Payload(handled[c]))
                      \in HandlerRetained
                /\ \E f \in HandlerRetained :
                      f.call = c /\ f.fn \in {"authenticate_user", "get_user"}
          /\ Cardinality(HandlerRetained) = 2 * Cardinality(FailedCalls)

\* The bad handler after an invalid token, an unknown user and a good
\* request: both singletons hold the frames of the request they failed.
C17_Witness ==
    /\ impl = "bad"
    /\ Len(handled) = 3
    /\ FailedCalls = {1, 2}
    /\ Depth(errors.token_invalid) = 2
    /\ Depth(errors.user_not_found) = 2
    /\ StackFrame("handle_request", 1, "large") \in HandlerRetained

\* C18 as stated: the baseline sample of start() has elapsed time exactly 0.
C18_BaselineElapsedIsZero ==
    [][lastCall' = "start" => timestamps'[1] = 0]_vars

\* C18 amended: the baseline sample of start() has as elapsed time the time
\* that passed between start()'s reading of the clock and the reading
\* _record_point makes after its collection pass and memory query: never
\* negative, and 0 only when these took no time.
C18_BaselineElapsedIsCallTime ==
    [][lastCall' = "start"
          => /\ Len(timestamps') = 1
             /\ start_time' = now
             /\ timestamps'[1] = now' - now
             /\ timestamps'[1] >= 0]_vars

\* A start() whose collection pass took a tick of the clock.
C18_Witness ==
    /\ lastCall = "start"
    /\ timestamps = <<1>>
    /\ now = start_time + 1

ElapsedSecondsCol ==
    <<"e", "l", "a", "p", "s", "e", "d", "_", "s", "e", "c", "o", "n", "d", "s">>

MetricValueCol ==
    <<"m", "e", "t", "r", "i", "c", "_", "v", "a", "l", "u", "e">>

\* One data row per sample, in order, each of two numeric fields, after one
\* header row, and nothing else.
RowPerSample(file) ==
    /\ Len(file) = 1 + Len(timestamps)
    /\ \A n \in 1..Len(timestamps) :
          /\ Len(file[n + 1]) = 2
          /\ IsNumeric(file[n + 1][1])
          /\ IsNumeric(file[n + 1][2])
          /\ ParseFloat(file[n + 1][1]) = timestamps[n]
          /\ ParseFloat(file[n + 1][2]) = memory_usage[n]

\* C19 as stated: the file save_data writes has the header row
\* elapsed_seconds,metric_value and one data row per sample.
C19_HeaderElapsedSecondsMetricValue ==
    lastCall = "save_data" =>
        /\ result.file[1] = <<ElapsedSecondsCol, MetricValueCol>>
        /\ RowPerSample(result.file)

\* C19 amended: the file save_data writes has exactly one header row,
\* timestamp,memory_mb, followed by exactly one data row of two fields per
\* sample, in sample order, and no other row.
C19_HeaderTimestampMemoryMb ==
    lastCall = "save_data" =>
        /\ result.kind = "file"
        /\ result.file[1] = <<TimestampCol, MemoryMbCol>>
        /\ RowPerSample(result.file)

\* The file of a stopped series of three samples.
C19_Witness ==
    /\ lastCall = "save_data"
    /\ State = "Closed"
    /\ Len(timestamps) = 3
    /\ Len(result.file) = 4
    /\ result.file[4] = <<FormatFloat(timestamps[3]), FormatFloat(memory_usage[3])>>

\* C20 as stated: the value stored in a sample is the resident-memory
\* reading in bytes, as read.
C20_StoredInBytes ==
    lastCall \in Sampling => Last(memory_usage) = steps[3].val * Scale

\* C20 amended: the value stored in a sample is the resident-memory reading
\* divided by 1024 * 1024, in MB; the division is made before the value is
\* stored and the bytes read are kept nowhere.
C20_StoredInMB ==
    lastCall \in Sampling =>
        /\ steps[3].op = "memory_info"
        /\ steps[3].val % Granule = 0
        /\ Last(memory_usage) = steps[3].val \div Granule
        /\ Last(memory_usage) # steps[3].val * Scale

\* A record() that read 1310720 bytes and stored 1.25.
C20_Witness ==
    /\ lastCall = "record"
    /\ steps[3].val = (BaseRss + 1) * Granule
    /\ Last(memory_usage) = BaseRss + 1

\* No CSV file was in the directory before this run of demo.py.
NoEarlierCsv == DOMAIN files \subseteq files_written

\* C21: in a directory that held no CSV file, the comparison at the end of
\* demo.py reads only files the same run has written, the two its test runs
\* saved, and produces the comparison output.
C21_DemoComparesOwnRuns ==
    (main_pc = "done" /\ NoEarlierCsv) =>
        /\ files_read = {"demo_singleton_memory.csv", "demo_factory_memory.csv"}
        /\ files_read \subseteq files_written
        /\ cmp_outputs # {}

\* demo.py has finished in a directory that was empty: its two files are
\* there, none was read, and the comparison returned for lack of input.
C21_Witness ==
    /\ main_pc = "done"
    /\ NoEarlierCsv
    /\ DOMAIN files = {"demo_singleton_memory.csv", "demo_factory_memory.csv"}
    /\ files_read = {}
    /\ cmp_outputs = {}
    /\ cmp_printed[1] = "Could not find memory usage CSV files."

\* C21, as demo.py behaves: its comparison never reads a file of its own run.
\* With no file matching both patterns it returns early without output;
\* otherwise it compares files left by other scripts.
C21_DemoNeverReadsOwnFiles ==
    main_pc = "done" =>
        /\ files_read \cap files_written = {}
        /\ NoEarlierCsv => (files_read = {} /\ cmp_outputs = {})

\* The sample the _record_point call of this step has measured: the elapsed
\* time from its clock reading, the memory from its memory_info reading.
MeasuredElapsed == IF start_time' # None THEN steps'[4].val - start_time' ELSE 0

MeasuredMb == ToMB(steps'[3].val)

\* A step that changes either list is one _record_point call: it puts its
\* two measurements at the same new index of both lists, after the pairs
\* already there (or, in start, after none).
PairedStep ==
    (timestamps' # timestamps \/ memory_usage' # memory_usage) =>
        /\ lastCall' \in Sampling
        /\ Len(steps') = 5
        /\ steps'[5].val = Len(timestamps')
        /\ steps'[5].val = Len(memory_usage')
        /\ timestamps'[steps'[5].val] = MeasuredElapsed
        /\ memory_usage'[steps'[5].val] = MeasuredMb
        /\ IF lastCall' = "start"
           THEN steps'[5].val = 1
           ELSE /\ timestamps = SubSeq(timestamps', 1, Len(timestamps') - 1)
                /\ memory_usage = SubSeq(memory_usage', 1, Len(memory_usage') - 1)

\* C22: the timestamps list and the memory_usage list always have the same
\* length, and the elements at one index of both come from the same
\* _record_point call: every call that changes a list appends its elapsed
\* time and its memory reading to both, at the same index, leaving the
\* earlier pairs in place.
C22_ListsPaired ==
    /\ [](Len(timestamps) = Len(memory_usage))
    /\ [][PairedStep]_vars

\* Three samples have been taken, the last by record(), and both the times
\* and the readings of the first and the last differ.
C22_Witness ==
    /\ lastCall = "record"
    /\ raised = "none"
    /\ Len(timestamps) = 3
    /\ Len(memory_usage) = 3
    /\ timestamps[1] # timestamps[3]
    /\ memory_usage[1] # memory_usage[3]

TimeOf(file) == Values(Column(ReadCsv(file), TimestampCol))

\* The line z fitted on the normalized values against the line raw fitted
\* on the values themselves, the first of which is first: the slopes
\* z.num / z.den and raw.num / raw.den are equal, and the intercept
\* z.inum / z.den is raw.inum / raw.den - first.
SameSlopeShifted(raw, z, first) ==
    /\ raw.kind = "fit"
    /\ z.kind = "fit"
    /\ z.num * raw.den = raw.num * z.den
    /\ z.inum * raw.den = (raw.inum - first * raw.den) * z.den

\* C23: subtracting the first memory value does not change the fitted
\* growth rate.  In a finished comparison, for each series with two distinct
\* timestamps, the trend line of the normalized plot has the slope of the
\* trend line of the raw plot, and its intercept is the raw intercept less
\* the first memory value of the series.
C23_NormalizedSlopeUnchanged ==
    Compared =>
        /\ DistinctXs(TimeOf(bad_csv.content)) =>
               SameSlopeShifted(cmp_stats.bad_trend, cmp_stats.bad_trend_normalized,
                                MemoryOf(bad_csv.content)[1])
        /\ DistinctXs(TimeOf(good_csv.content)) =>
               SameSlopeShifted(cmp_stats.good_trend, cmp_stats.good_trend_normalized,
                                MemoryOf(good_csv.content)[1])

\* A finished comparison of a series of three samples that starts above 0,
\* falls and then grows, with a series of two: the bad trend has a slope
\* other than 0 and an intercept that normalization has moved.
C23_Witness ==
    /\ Compared
    /\ Len(TimeOf(bad_csv.content)) = 3
    /\ DistinctXs(TimeOf(bad_csv.content))
    /\ DistinctXs(TimeOf(good_csv.content))
    /\ MemoryOf(bad_csv.content)[1] # 0
    /\ MemoryOf(bad_csv.content)[2] < MemoryOf(bad_csv.content)[1]
    /\ cmp_stats.bad_trend.kind = "fit"
    /\ cmp_stats.bad_trend.num # 0
    /\ cmp_stats.bad_trend_normalized.inum # cmp_stats.bad_trend.inum

\* What the handler of module returns to req when it is the first request
\* the process handles.
FirstResponse(module, req) ==
    IF Failure(req) = "none"
    THEN Success(UserRecord(req.user_id), [user_id |-> "user1", authenticated |-> TRUE])
    ELSE ErrorResponse(Raised(module, Failure(req)))

RejectedToken(req) == req.token \in {"", "invalid"}

\* C24: the bad and the good RequestHandler return the same dictionary to
\* every request, whatever requests came before.  The response of the
\* handler in use is the one the bad handler and the one the good handler
\* give to that request when it is their first; the token is checked before
\* the user is looked up, so a rejected token answers TOKEN_INVALID (401)
\* whoever the user is, an unknown user with an accepted token answers
\* USER_NOT_FOUND (404), and every other request succeeds; the payload
\* changes nothing.
C24_SameResponses ==
    Len(handled) > 0 =>
        LET req == Last(handled)
        IN  /\ response = FirstResponse("bad", req)
            /\ response = FirstResponse("good", req)
            /\ RejectedToken(req) =>
                   /\ response.status = "error"
                   /\ response.error =
                         [message |-> "The provided token is invalid",
                          status_code |-> 401, error_code |-> "TOKEN_INVALID"]
            /\ (~RejectedToken(req) /\ req.user_id \notin Users) =>
                   /\ response.status = "error"
                   /\ response.error =
                         [message |-> "User was not found",
                          status_code |-> 404, error_code |-> "USER_NOT_FOUND"]
            /\ (~RejectedToken(req) /\ req.user_id \in Users) =>
                   /\ response.status = "success"
                   /\ response.data.auth = [user_id |-> "user1", authenticated |-> TRUE]
                   /\ response.data.user = UserRecord(req.user_id)

\* The bad handler, having already failed on an unknown user and on a
\* token, answers a request without payload that has both a rejected token
\* and an unknown user: the answer is the token's error.
C24_Witness ==
    /\ impl = "bad"
    /\ Len(handled) = 3
    /\ Depth(errors.user_not_found) = 2
    /\ Depth(errors.token_invalid) = 4
    /\ handled[3] = [token |-> "invalid", user_id |-> "ghost", payload |-> "absent"]
    /\ response.error.error_code = "TOKEN_INVALID"

====
